---- MODULE Spec2Model ----
(***************************************************************************)
(* Predictive-maintenance health analysis of monitored equipment           *)
(* (assets/predictive_maintenance.py), the Zabbix history fetch it relies  *)
(* on (assets/services/zabbix_service.py) and the periodic task that runs  *)
(* it over all monitored equipment (messages/tasks.py).                    *)
(*                                                                         *)
(* Numbers: metric values are integers (percentages, degrees, seconds).    *)
(* An average is kept as the pair (sum, n); "avg > t" is sum > t * n.      *)
(***************************************************************************)
EXTENDS Integers, Sequences, FiniteSets, TLC

(***************************************************************************)
(* Bounds of the model                                                     *)
(***************************************************************************)
MaxDay == 1
MaxNotifications == 2
MaxAnoms == 2

(***************************************************************************)
(* Program constants                                                       *)
(***************************************************************************)
\* self.thresholds, PredictiveMaintenanceService.__init__
cpu_critical == 90
cpu_warning == 80
memory_critical == 95
memory_warning == 85
disk_critical == 95
disk_warning == 85
temperature_critical == 80
temperature_warning == 70
\* _detect_anomalies: "if len(metric_data) < 10", "anomalies[:20]"
MinDetectSamples == 10
TopAnomalies == 20
\* IsolationForest(contamination=0.1): one point in ContaminationInv
ContaminationInv == 10
\* _analyze_trends: "if len(metric_data) < 5"
MinTrendSamples == 5
\* _calculate_health_metrics: u / (24 * 3600) < 1
DaySeconds == 86400
\* _calculate_health_score: restarts > 5
RestartLimit == 5
\* _generate_maintenance_recommendations: recommendations[:10], days_since > 90
MaxRecommendations == 10

None == "<None>"

\* an optional datetime: None, or the day it falls on
NoDate == << >>
OnDay(day) == << day >>

(***************************************************************************)
(* The metric keys collected by _get_monitoring_data, in the order of the  *)
(* list (the order in which the keys enter the monitoring_data dict).      *)
(***************************************************************************)
Metrics ==
  << "system.cpu.util", "vm.memory.util", "vfs.fs.size[/,pused]",
     "system.hw.chassis[info]", "system.uptime", "net.if.in[eth0]",
     "net.if.out[eth0]", "sensor.temp.value" >>

MetricSet == { Metrics[i] : i \in 1..Len(Metrics) }

\* Python's "sub in metric_name" for the substrings the code tests.
Contains(sub, metric_name) ==
  CASE sub = "cpu"    -> metric_name = "system.cpu.util"
    [] sub = "memory" -> metric_name = "vm.memory.util"
    [] sub = "disk"   -> FALSE
    [] sub = "temp"   -> metric_name = "sensor.temp.value"
    [] OTHER          -> FALSE

(***************************************************************************)
(* Samples as returned by history.get: a clock and a value; numeric is     *)
(* FALSE for a value float() cannot parse (text items).                    *)
(***************************************************************************)
Sample(c, v) == [clock |-> c, value |-> v, numeric |-> TRUE]
TextSample(c) == [clock |-> c, value |-> 0, numeric |-> FALSE]

\* float(v['value']) for v in stream raises ValueError
FloatFails(stream) == \E i \in 1..Len(stream) : ~stream[i].numeric

\* sum of value[i] * (w = 0: 1, w = 1: i - 1) over lo..hi, by halves
RECURSIVE SumRange(_, _, _, _)
SumRange(stream, w, lo, hi) ==
  IF lo > hi THEN 0
  ELSE IF lo = hi THEN (IF w = 0 THEN stream[lo].value ELSE (lo - 1) * stream[lo].value)
  ELSE LET mid == (lo + hi) \div 2
       IN SumRange(stream, w, lo, mid) + SumRange(stream, w, mid + 1, hi)

\* np.sum of the values
SumValues(stream) == SumRange(stream, 0, 1, Len(stream))

\* np.max of the values (stream non-empty)
MaxValue(stream) ==
  LET vs == { stream[i].value : i \in 1..Len(stream) }
  IN CHOOSE v \in vs : \A u \in vs : u <= v

\* np.sum(x * y) for x = 0..n-1
SumXY(stream) == SumRange(stream, 1, 1, Len(stream))

\* the regression run against the timestamps instead of the sample index
TrendAgainstClock(stream) ==
  LET n == Len(stream)
      RECURSIVE Sum(_, _)
      Sum(f, k) == IF k = 0 THEN 0 ELSE f[k] + Sum(f, k - 1)
      sx == Sum([i \in 1..n |-> stream[i].clock], n)
      sxx == Sum([i \in 1..n |-> stream[i].clock * stream[i].clock], n)
      sxy == Sum([i \in 1..n |-> stream[i].clock * stream[i].value], n)
  IN IF n < 2 THEN [num |-> 0, den |-> 1]
     ELSE [num |-> n * sxy - sx * SumValues(stream), den |-> n * sxx - sx * sx]

\* _calculate_trend: slope as the fraction num / den (den > 0 when n >= 2);
\* x = 0..n-1, sum(x) = n(n-1)/2, sum(x^2) = (n-1)n(2n-1)/6
_calculate_trend(stream) ==
  LET n == Len(stream)
      sx == (n * (n - 1)) \div 2
      sxx == ((n - 1) * n * (2 * n - 1)) \div 6
  IN IF n < 2 THEN [num |-> 0, den |-> 1]
     ELSE [num |-> n * SumXY(stream) - sx * SumValues(stream),
           den |-> n * sxx - sx * sx]

Abs(x) == IF x < 0 THEN -x ELSE x

(***************************************************************************)
(* _calculate_health_metrics: one step per metric family, in the order of  *)
(* the code, all inside one try: the first step that raises ends the       *)
(* computation and the summaries built so far are returned.                *)
(***************************************************************************)
FamOrder == << "cpu", "memory", "disk", "uptime", "temperature", "network" >>

FamStreams(fam) ==
  CASE fam = "cpu"         -> << "system.cpu.util" >>
    [] fam = "memory"      -> << "vm.memory.util" >>
    [] fam = "disk"        -> << "vfs.fs.size[/,pused]" >>
    [] fam = "uptime"      -> << "system.uptime" >>
    [] fam = "temperature" -> << "sensor.temp.value" >>
    [] fam = "network"     -> << "net.if.in[eth0]", "net.if.out[eth0]" >>

\* "key in monitoring_data": only non-empty streams are stored
HasKey(data, m) == data[m] # << >>

FamApplies(data, fam) ==
  \A i \in 1..Len(FamStreams(fam)) : HasKey(data, FamStreams(fam)[i])

\* np.array(in_data) + np.array(out_data) raises unless the shapes broadcast
BroadcastFails(a, b) == Len(a) # Len(b) /\ Len(a) # 1 /\ Len(b) # 1

FamFails(data, fam) ==
  /\ FamApplies(data, fam)
  /\ \/ \E i \in 1..Len(FamStreams(fam)) : FloatFails(data[FamStreams(fam)[i]])
     \/ /\ fam = "network"
        /\ BroadcastFails(data["net.if.in[eth0]"], data["net.if.out[eth0]"])

\* index in FamOrder of the first step that raises, Len(FamOrder) + 1 if none
FirstFailure(data) ==
  LET bad == { i \in 1..Len(FamOrder) : FamFails(data, FamOrder[i]) }
  IN IF bad = {} THEN Len(FamOrder) + 1
     ELSE CHOOSE i \in bad : \A j \in bad : i <= j

\* len([u for u in uptime_days if u < 1])
Restarts(stream) ==
  Cardinality({ i \in 1..Len(stream) : stream[i].value < DaySeconds })

\* element-wise sum of the two network streams (with broadcasting)
NetSum(a, b) ==
  LET n == IF Len(a) >= Len(b) THEN Len(a) ELSE Len(b)
      at(s, i) == IF Len(s) = 1 THEN s[1].value ELSE s[i].value
  IN [i \in 1..n |-> Sample(i, at(a, i) + at(b, i))]

FamSummary(data, fam) ==
  LET s == data[FamStreams(fam)[1]]
  IN CASE fam \in {"cpu", "memory", "disk", "temperature"} ->
            [sum |-> SumValues(s), n |-> Len(s), max |-> MaxValue(s),
             trend |-> _calculate_trend(s)]
       [] fam = "uptime" ->
            [current |-> s[Len(s)].value, sum |-> SumValues(s), n |-> Len(s),
             restarts |-> Restarts(s)]
       [] fam = "network" ->
            LET o == data["net.if.out[eth0]"]
            IN [sum_in |-> SumValues(s), n_in |-> Len(s),
                sum_out |-> SumValues(o), n_out |-> Len(o),
                max_in |-> MaxValue(s), max_out |-> MaxValue(o),
                utilization_trend |-> _calculate_trend(NetSum(s, o))]

\* the summaries computed without the try: the first step that raises
\* reaches the caller
HealthMetricsUnguarded(monitoring_data) ==
  IF FirstFailure(monitoring_data) <= Len(FamOrder) THEN [raised |-> TRUE]
  ELSE [fam \in { f \in { FamOrder[i] : i \in 1..Len(FamOrder) } :
                     FamApplies(monitoring_data, f) } |->
          FamSummary(monitoring_data, fam)]

_calculate_health_metrics(monitoring_data) ==
  LET stop == FirstFailure(monitoring_data)
      done == { FamOrder[i] : i \in { j \in 1..Len(FamOrder) :
                   j < stop /\ FamApplies(monitoring_data, FamOrder[j]) } }
  IN [fam \in done |-> FamSummary(monitoring_data, fam)]

(***************************************************************************)
(* _calculate_anomaly_severity and _detect_anomalies                       *)
(***************************************************************************)
_calculate_anomaly_severity(metric_name, value) ==
  IF Contains("cpu", metric_name)
  THEN (IF value > 95 THEN "critical" ELSE IF value > 85 THEN "high" ELSE "medium")
  ELSE IF Contains("memory", metric_name)
  THEN (IF value > 98 THEN "critical" ELSE IF value > 90 THEN "high" ELSE "medium")
  ELSE IF Contains("disk", metric_name)
  THEN (IF value > 98 THEN "critical" ELSE IF value > 90 THEN "high" ELSE "medium")
  ELSE IF Contains("temp", metric_name)
  THEN (IF value > 85 THEN "critical" ELSE IF value > 75 THEN "high" ELSE "medium")
  ELSE "medium"

\* The labels of IsolationForest(contamination=0.1).fit_predict: the points
\* whose score lies strictly below the 10th percentile of the scores, hence
\* at most ceil((n-1)/10) of n points.  Which points is left open.
CanFlag(stream, F) ==
  /\ F \subseteq 1..Len(stream)
  /\ F # {} => ContaminationInv * (Cardinality(F) - 1) < Len(stream) - 1

Anomaly(metric_name, s) ==
  [metric |-> metric_name, timestamp |-> s.clock, value |-> s.value,
   severity |-> _calculate_anomaly_severity(metric_name, s.value)]

\* the anomalies of one stream, in index order ("for i, label in enumerate")
RECURSIVE FlaggedFrom(_, _, _)
FlaggedFrom(metric_name, stream, F) ==
  IF F = {} THEN << >>
  ELSE LET i == CHOOSE j \in F : \A k \in F : j <= k
       IN << Anomaly(metric_name, stream[i]) >>
          \o FlaggedFrom(metric_name, stream, F \ {i})

\* the loop letting streams of nine samples through to the classifier
RECURSIVE ScanFromNine(_, _, _)
ScanFromNine(data, labels, i) ==
  IF i > Len(Metrics) THEN << >>
  ELSE LET m == Metrics[i]
       IN IF ~HasKey(data, m) \/ Len(data[m]) < MinDetectSamples - 1
          THEN ScanFromNine(data, labels, i + 1)
          ELSE IF FloatFails(data[m]) THEN << >>
          ELSE FlaggedFrom(m, data[m], labels[m]) \o ScanFromNine(data, labels, i + 1)

\* the loop over monitoring_data.items(); an exception ends the loop and
\* keeps what was appended before
RECURSIVE ScanFrom(_, _, _)
ScanFrom(data, labels, i) ==
  IF i > Len(Metrics) THEN << >>
  ELSE LET m == Metrics[i]
       IN IF ~HasKey(data, m) \/ Len(data[m]) < MinDetectSamples
          THEN ScanFrom(data, labels, i + 1)
          ELSE IF FloatFails(data[m]) THEN << >>
          ELSE FlaggedFrom(m, data[m], labels[m]) \o ScanFrom(data, labels, i + 1)

\* Python compares the severity strings: 'critical' < 'high' < 'medium'
StrOrd(severity) ==
  CASE severity = "critical" -> 1 [] severity = "high" -> 2 [] severity = "medium" -> 3

\* key(a) > key(b) for key = (severity, timestamp)
KeyGreater(a, b) ==
  \/ StrOrd(a.severity) > StrOrd(b.severity)
  \/ StrOrd(a.severity) = StrOrd(b.severity) /\ a.timestamp > b.timestamp

\* insert x after every element whose key is not below x's (stable)
RECURSIVE InsertDesc(_, _)
InsertDesc(sorted, x) ==
  IF sorted = << >> THEN << x >>
  ELSE IF KeyGreater(x, Head(sorted)) THEN << x >> \o sorted
  ELSE << Head(sorted) >> \o InsertDesc(Tail(sorted), x)

\* anomalies.sort(key=..., reverse=True)
RECURSIVE SortReverse(_, _)
SortReverse(seq, k) ==
  IF k = 0 THEN << >> ELSE InsertDesc(SortReverse(seq, k - 1), seq[k])

Take(seq, k) == IF Len(seq) <= k THEN seq ELSE SubSeq(seq, 1, k)

_detect_anomalies(monitoring_data, labels) ==
  LET anomalies == ScanFrom(monitoring_data, labels, 1)
  IN Take(SortReverse(anomalies, Len(anomalies)), TopAnomalies)

(***************************************************************************)
(* _analyze_trends: streams of at least 5 samples, in dict order; an       *)
(* exception ends the loop and keeps the trends computed before.           *)
(***************************************************************************)
RECURSIVE TrendKeysFrom(_, _)
TrendKeysFrom(data, i) ==
  IF i > Len(Metrics) THEN {}
  ELSE LET m == Metrics[i]
       IN IF ~HasKey(data, m) \/ Len(data[m]) < MinTrendSamples
          THEN TrendKeysFrom(data, i + 1)
          ELSE IF FloatFails(data[m]) THEN {}
          ELSE {m} \cup TrendKeysFrom(data, i + 1)

\* abs(slope) < 0.001, slope > 0, abs(slope) > 0.01 on the fraction num/den
TrendOf(stream) ==
  LET t == _calculate_trend(stream)
  IN [direction |-> IF Abs(t.num) <= (t.den - 1) \div 1000 THEN "stable"
                    ELSE IF t.num > 0 THEN "increasing" ELSE "decreasing",
      slope |-> t,
      significance |-> IF Abs(t.num) > t.den \div 100 THEN "high" ELSE "low"]

_analyze_trends(monitoring_data) ==
  [m \in TrendKeysFrom(monitoring_data, 1) |-> TrendOf(monitoring_data[m])]

(***************************************************************************)
(* _predict_failure.  past is the list of completed_date values (day       *)
(* numbers) of the asset's completed interventions, most recent first (at  *)
(* most 10).  completed_date is a DateTimeField, so predicted_date is a    *)
(* datetime, while max_future_date is built from timezone.now().date():    *)
(* ordering a datetime against a date raises TypeError in Python, and the  *)
(* except branch returns None.                                             *)
(***************************************************************************)
\* Python's datetime and date values: what they are and their day
DateTime(day) == [type |-> "datetime", day |-> day]
Date(day) == [type |-> "date", day |-> day]

\* "a > b" raises TypeError when one is a datetime and the other a date
OrderingRaises(a, b) == a.type # b.type

\* intervention_intervals: (past[i-1] - past[i]).days for i in 1..len-1
RECURSIVE IntervalSum(_, _)
IntervalSum(past, i) ==
  IF i >= Len(past) THEN 0 ELSE (past[i] - past[i + 1]) + IntervalSum(past, i + 1)

\* np.mean(data) > threshold for the stream of a key of monitoring_data
MeanAbove(monitoring_data, key, threshold) ==
  /\ HasKey(monitoring_data, key)
  /\ SumValues(monitoring_data[key]) > threshold * Len(monitoring_data[key])

\* health_factor as the fraction num / den: 1.0, times 0.8 per concerning average
health_factor(monitoring_data) ==
  LET cpu == MeanAbove(monitoring_data, "system.cpu.util", cpu_warning)
      mem == MeanAbove(monitoring_data, "vm.memory.util", memory_warning)
  IN IF cpu /\ mem THEN [num |-> 16, den |-> 25]
     ELSE IF cpu \/ mem THEN [num |-> 4, den |-> 5]
     ELSE [num |-> 1, den |-> 1]

\* int(avg_interval * health_factor), avg_interval = np.mean of the intervals
adjusted_days(monitoring_data, past) ==
  LET hf == health_factor(monitoring_data)
  IN (IntervalSum(past, 1) * hf.num) \div ((Len(past) - 1) * hf.den)

\* two events taken for enough history, the dates compared as dates
PredictFailureFromTwo(monitoring_data, past, today) ==
  IF Len(past) < 2 THEN NoDate
  ELSE LET predicted_day == past[1] + adjusted_days(monitoring_data, past)
       IN IF predicted_day > today + 365 THEN NoDate ELSE OnDay(predicted_day)

_predict_failure(monitoring_data, past, today) ==
  IF Len(past) < 3 THEN NoDate
  ELSE IF \E key \in {"system.cpu.util", "vm.memory.util"} :
            HasKey(monitoring_data, key) /\ FloatFails(monitoring_data[key])
  THEN NoDate
  ELSE LET predicted_date == DateTime(past[1] + adjusted_days(monitoring_data, past))
           max_future_date == Date(today + 365)
       IN IF OrderingRaises(predicted_date, max_future_date) THEN NoDate
          ELSE IF predicted_date.day > max_future_date.day THEN NoDate
          ELSE OnDay(predicted_date.day)

(***************************************************************************)
(* _calculate_health_score and _determine_risk_level                       *)
(***************************************************************************)
CountSeverity(anomalies, sev) ==
  Cardinality({ i \in 1..Len(anomalies) : anomalies[i].severity = sev })

\* the comparison slipped to "avg >= threshold"
AvgAtLeast(summary, threshold) == summary.sum >= threshold * summary.n

\* "avg > threshold" for avg = sum / n
AvgAbove(summary, threshold) == summary.sum > threshold * summary.n

\* min(100, score): the floor at 0 left out
ClampNoFloor(score) == IF score > 100 THEN 100 ELSE score

\* max(0, min(100, score))
Clamp(score) == IF score < 0 THEN 0 ELSE IF score > 100 THEN 100 ELSE score

\* the critical anomalies' share added to the score instead of subtracted
AnomalyImpactSignSlip(anomalies) ==
  CountSeverity(anomalies, "high") * 5 - CountSeverity(anomalies, "critical") * 10

\* "Anomaly impact": len(critical_anomalies) * 10 and len(high_anomalies) * 5
AnomalyImpact(anomalies) ==
  CountSeverity(anomalies, "critical") * 10 + CountSeverity(anomalies, "high") * 5

_calculate_health_score(health_metrics, anomalies) ==
  LET has(fam) == fam \in DOMAIN health_metrics
      s0 == 100
      s1 == IF has("cpu")
            THEN (IF AvgAbove(health_metrics["cpu"], cpu_critical) THEN s0 - 30
                  ELSE IF AvgAbove(health_metrics["cpu"], cpu_warning) THEN s0 - 15
                  ELSE s0)
            ELSE s0
      s2 == IF has("memory")
            THEN (IF AvgAbove(health_metrics["memory"], memory_critical) THEN s1 - 25
                  ELSE IF AvgAbove(health_metrics["memory"], memory_warning) THEN s1 - 12
                  ELSE s1)
            ELSE s1
      s3 == IF has("disk")
            THEN (IF AvgAbove(health_metrics["disk"], disk_critical) THEN s2 - 20
                  ELSE IF AvgAbove(health_metrics["disk"], disk_warning) THEN s2 - 10
                  ELSE s2)
            ELSE s2
      s4 == IF has("temperature")
            THEN (IF AvgAbove(health_metrics["temperature"], temperature_critical) THEN s3 - 25
                  ELSE IF AvgAbove(health_metrics["temperature"], temperature_warning) THEN s3 - 10
                  ELSE s3)
            ELSE s3
      s6 == s4 - AnomalyImpact(anomalies)
      s7 == IF has("uptime") /\ health_metrics["uptime"].restarts > RestartLimit
            THEN s6 - 15 ELSE s6
  IN Clamp(s7)

\* the labels of the two middle bands exchanged
RiskLevelSwapped(health_score, anomalies) ==
  IF health_score < 30 \/ CountSeverity(anomalies, "critical") > 0 THEN "critical"
  ELSE IF health_score < 50 THEN "medium"
  ELSE IF health_score < 70 THEN "high"
  ELSE "low"

\* the bands closed on the right: "<=" for "<"
RiskLevelInclusive(health_score, anomalies) ==
  IF health_score <= 30 \/ CountSeverity(anomalies, "critical") > 0 THEN "critical"
  ELSE IF health_score <= 50 THEN "high"
  ELSE IF health_score <= 70 THEN "medium"
  ELSE "low"

_determine_risk_level(health_score, anomalies) ==
  IF health_score < 30 \/ CountSeverity(anomalies, "critical") > 0 THEN "critical"
  ELSE IF health_score < 50 THEN "high"
  ELSE IF health_score < 70 THEN "medium"
  ELSE "low"

(***************************************************************************)
(* _generate_maintenance_recommendations (texts abbreviated to tags)       *)
(***************************************************************************)
RECURSIVE TrendRecsFrom(_, _)
TrendRecsFrom(trends, i) ==
  IF i > Len(Metrics) THEN << >>
  ELSE LET m == Metrics[i]
           hit == /\ m \in DOMAIN trends
                  /\ trends[m].direction = "increasing"
                  /\ trends[m].significance = "high"
           rec == IF ~hit THEN << >>
                  ELSE IF Contains("cpu", m) THEN << "CPU usage is trending upward" >>
                  ELSE IF Contains("memory", m) THEN << "Memory usage is trending upward" >>
                  ELSE IF Contains("disk", m) THEN << "Disk usage is trending upward" >>
                  ELSE << >>
       IN rec \o TrendRecsFrom(trends, i + 1)

_generate_maintenance_recommendations(equipment, health_metrics, anomalies, trends, today) ==
  LET has(fam) == fam \in DOMAIN health_metrics
      over(fam, thr) == has(fam) /\ AvgAbove(health_metrics[fam], thr)
      recommendations ==
           (IF over("cpu", cpu_warning) THEN << "High CPU utilization detected" >> ELSE << >>)
        \o (IF over("memory", memory_warning) THEN << "High memory utilization detected" >> ELSE << >>)
        \o (IF over("disk", disk_warning) THEN << "High disk utilization detected" >> ELSE << >>)
        \o (IF over("temperature", temperature_warning) THEN << "High temperature detected" >> ELSE << >>)
        \o TrendRecsFrom(trends, 1)
        \o (IF CountSeverity(anomalies, "critical") > 0
            THEN << "Critical anomalies detected" >> ELSE << >>)
        \o (IF equipment.last_maintenance # None /\ today - equipment.last_maintenance > 90
            THEN << "Schedule routine maintenance check" >> ELSE << >>)
        \o (IF equipment.category = "server" THEN << "Verify backup systems" >>
            ELSE IF equipment.category = "laptop" THEN << "Check battery health" >>
            ELSE IF equipment.category = "network" THEN << "Monitor network traffic" >>
            ELSE << >>)
  IN Take(recommendations, MaxRecommendations)

_create_no_data_response ==
  [health_score |-> 50, risk_level |-> "unknown", predicted_failure_date |-> NoDate,
   maintenance_recommendations |->
     << "No monitoring data available",
        "Enable Zabbix monitoring to get detailed health insights",
        "Ensure network connectivity to monitoring server" >>,
   anomalies |-> << >>, trends |-> << >>]

(***************************************************************************)
(* The Equipment table (assets/models.py) and the completed interventions  *)
(* of each asset.  Asset 6 does not exist.                                 *)
(***************************************************************************)
Asset(enabled, hostid, status, category) ==
  [monitoring_enabled |-> enabled, zabbix_hostid |-> hostid, status |-> status,
   category |-> category, last_maintenance |-> None]

EquipmentDB ==
  [id \in 1..5 |->
     CASE id = 1 -> Asset(TRUE, "10084", "available", "server")
       [] id = 2 -> Asset(FALSE, "10085", "available", "desktop")
       [] id = 3 -> Asset(TRUE, "", "assigned", "laptop")
       [] id = 4 -> Asset(TRUE, None, "available", "printer")
       [] id = 5 -> Asset(TRUE, "", "retired", "network")]

EquipmentIds == 1..6

\* completed_date (day numbers) of the completed interventions, newest first
Completed(id) == IF id = 1 THEN << -10, -40, -70 >> ELSE << >>

\* "equipment.zabbix_hostid is None": the empty string passes
FalsyNoneOnly(hostid) == hostid = None

\* "not equipment.zabbix_hostid"
Falsy(hostid) == hostid = None \/ hostid = ""

(***************************************************************************)
(* ZabbixService.get_history_data.  reply is what the backend does for the *)
(* metric: "ok" (item found, history returned), "noitem" (item.get returns *)
(* nothing) or "error" (the API call raises).  connected is FALSE when     *)
(* ZabbixService.connect failed and self.api is None.                      *)
(***************************************************************************)
Ok(samples) == [kind |-> "ok", samples |-> samples]
NoItem == [kind |-> "noitem", samples |-> << >>]
ApiError == [kind |-> "error", samples |-> << >>]

get_history_data(connected, reply) ==
  IF ~connected THEN << >>
  ELSE IF reply.kind = "error" THEN << >>
  ELSE IF reply.kind = "noitem" THEN << >>
  ELSE reply.samples

\* passes over the backend made for one metric in a cycle: the loop of
\* _get_monitoring_data calls get_history_data once per metric, and
\* get_history_data runs item.get and history.get once, with no loop
FetchAttempts(connected, reply) == IF ~connected THEN 0 ELSE 1

\* API requests made by one get_history_data call
HistoryRequests(connected, reply) ==
  IF ~connected THEN 0 ELSE IF reply.kind = "ok" THEN 2 ELSE 1

\* the loop left at the first metric whose fetch fails
GetDataAborting(connected, replies) ==
  LET failed == { i \in 1..Len(Metrics) : connected /\ replies[Metrics[i]].kind = "error" }
  IN [m \in MetricSet |->
        IF \E i \in failed : \E j \in i..Len(Metrics) : Metrics[j] = m
        THEN << >>
        ELSE get_history_data(connected, replies[m])]

\* _get_monitoring_data: data[metric] = values, stored only "if values"
_get_monitoring_data(connected, replies) ==
  [m \in MetricSet |-> get_history_data(connected, replies[m])]

RECURSIVE RequestsFrom(_, _, _)
RequestsFrom(connected, replies, i) ==
  IF i > Len(Metrics) THEN 0
  ELSE HistoryRequests(connected, replies[Metrics[i]])
       + RequestsFrom(connected, replies, i + 1)

\* "if not monitoring_data"
IsEmptyDict(data) == \A m \in MetricSet : ~HasKey(data, m)

(***************************************************************************)
(* _send_maintenance_alert.  fault "create" makes                          *)
(* SystemNotification.objects.create raise, fault "send" makes the         *)
(* channel-layer send raise; both are caught and logged.  Fault            *)
(* "scoring" takes _calculate_health_score through its except branch.      *)
(***************************************************************************)
Faults == { "none", "scoring", "create", "send" }
\* the faults drawn where cycles follow one another (a failed send is drawn
\* in the single-cycle specification)
RunFaults == { "none", "scoring", "create" }

\* A SystemNotification row: its type, its asset, the risk level its message
\* states and the day of created_at (title and message text are not kept).
Notification(type, id, result, today) ==
  [notification_type |-> type, related_equipment |-> id,
   risk_level |-> result.risk_level, day |-> today]

\* a failed send answered by publishing the alert once more
SendAlertRetrying(id, result, fault, today) ==
  LET row == Notification("maintenance_due", id, result, today)
      msg == [equipment |-> id, risk_level |-> result.risk_level, day |-> today]
  IN IF fault = "create" THEN [created |-> << >>, sent |-> << >>]
     ELSE IF fault = "send" THEN [created |-> << row, row >>, sent |-> << msg >>]
     ELSE [created |-> << row >>, sent |-> << msg >>]

_send_maintenance_alert(id, result, fault, today) ==
  IF fault = "create" THEN [created |-> << >>, sent |-> << >>]
  ELSE IF fault = "send"
  THEN [created |-> << Notification("maintenance_due", id, result, today) >>,
        sent |-> << >>]
  ELSE [created |-> << Notification("maintenance_due", id, result, today) >>,
        sent |-> << [equipment |-> id, risk_level |-> result.risk_level,
                     day |-> today] >>]

(***************************************************************************)
(* analyze_equipment_health.  env is what the cycle meets outside the      *)
(* service: connected, replies (per metric), labels (the points the        *)
(* isolation forest labels -1, per metric), past (the completed_date       *)
(* values of the asset's completed interventions) and fault.  The value   *)
(* is the returned dict (result) together with the effects of the call.    *)
(***************************************************************************)
\* the alert sent from medium upwards
IsSignificantFromMedium(risk_level) == risk_level \in {"medium", "high", "critical"}

\* "if risk_level in ['high', 'critical']"
IsSignificant(risk_level) == risk_level \in {"high", "critical"}

\* stages is the list of the steps the call went through, in the order of
\* its statements
Outcome(result, alert, requests, history, stages) ==
  [result |-> result, created |-> alert.created, sent |-> alert.sent,
   backend_requests |-> requests, history_queried |-> history, stages |-> stages]

\* the statements of the try block after the fetch, in source order
AnalysisStages ==
  << "summarize", "detect", "trend", "predict", "recommend", "score", "risk" >>

\* what a helper that lets its exception out hands to the caller's except
Raised == [raised |-> TRUE]
IsRaised(value) == "raised" \in DOMAIN value

NoAlert == [created |-> << >>, sent |-> << >>]

analyze_equipment_health(equipment_id, env, today) ==
  IF equipment_id \notin DOMAIN EquipmentDB
  THEN Outcome([error |-> "Equipment not found"], NoAlert, 0, FALSE, << >>)
  ELSE
  LET equipment == EquipmentDB[equipment_id]
  IN IF ~equipment.monitoring_enabled \/ Falsy(equipment.zabbix_hostid)
     THEN Outcome([health_score |-> 50, risk_level |-> "unknown",
                   predicted_failure_date |-> NoDate,
                   maintenance_recommendations |->
                     << "Enable monitoring to get health insights" >>,
                   anomalies |-> << >>, trends |-> << >>],
                  NoAlert, 0, FALSE, << >>)
     ELSE
     LET monitoring_data == _get_monitoring_data(env.connected, env.replies)
         requests == RequestsFrom(env.connected, env.replies, 1)
     IN IF IsEmptyDict(monitoring_data)
        THEN Outcome(_create_no_data_response, NoAlert, requests, FALSE, << "fetch" >>)
        ELSE
        LET health_metrics == _calculate_health_metrics(monitoring_data)
        IN
        \* "except Exception as e: return {'error': str(e)}"
        IF IsRaised(health_metrics)
        THEN Outcome([error |-> "exception"], NoAlert, requests, FALSE,
                     << "fetch", "summarize" >>)
        ELSE
        LET anomalies == _detect_anomalies(monitoring_data, env.labels)
            trends == _analyze_trends(monitoring_data)
            failure_prediction ==
              _predict_failure(monitoring_data, env.past, today)
            recommendations ==
              _generate_maintenance_recommendations(
                 equipment, health_metrics, anomalies, trends, today)
            \* the except branch of _calculate_health_score returns 50.0
            health_score == IF env.fault = "scoring" THEN 50
                            ELSE _calculate_health_score(health_metrics, anomalies)
            risk_level == _determine_risk_level(health_score, anomalies)
            result == [health_score |-> health_score, risk_level |-> risk_level,
                       predicted_failure_date |-> failure_prediction,
                       maintenance_recommendations |-> recommendations,
                       anomalies |-> anomalies, trends |-> trends,
                       health_metrics |-> health_metrics]
        IN Outcome(result,
                   IF IsSignificant(risk_level)
                   THEN _send_maintenance_alert(equipment_id, result, env.fault, today)
                   ELSE NoAlert,
                   requests, TRUE,
                   << "fetch" >> \o AnalysisStages
                     \o (IF IsSignificant(risk_level) THEN << "alert" >> ELSE << >>))

(***************************************************************************)
(* Sample streams the backend may return                                   *)
(***************************************************************************)
\* n samples of value v
Const(n, v) == [i \in 1..n |-> Sample(i, v)]
\* n samples of value v, the last Len(tail) of them replaced by tail
Tail_(n, v, tail) ==
  [i \in 1..n |-> Sample(i, IF i <= n - Len(tail) THEN v
                            ELSE tail[i - (n - Len(tail))])]
\* n samples of a text item
Text(n) == [i \in 1..n |-> TextSample(i)]

\* The label sets tried for a stream: nothing flagged, the highest outlying
\* point, or every outlying point (a point is outlying when it differs from
\* the level of the stream's first sample), within what the contamination
\* allows.
Outliers(stream) == { i \in 1..Len(stream) : stream[i].value # stream[1].value }

LabelSets(stream) ==
  IF FloatFails(stream) THEN { {} }
  ELSE { F \in {{}, Outliers(stream)}
                 \cup { {i} : i \in { j \in Outliers(stream) :
                                        stream[j].value = MaxValue(stream) } } :
           CanFlag(stream, F) }

MkMap(c, me, d, ch, u, ni, no, t) ==
  [m \in MetricSet |->
     CASE m = "system.cpu.util" -> c
       [] m = "vm.memory.util" -> me
       [] m = "vfs.fs.size[/,pused]" -> d
       [] m = "system.hw.chassis[info]" -> ch
       [] m = "system.uptime" -> u
       [] m = "net.if.in[eth0]" -> ni
       [] m = "net.if.out[eth0]" -> no
       [] m = "sensor.temp.value" -> t]

(***************************************************************************)
(* The analysis cycles, their callers and the notification table           *)
(***************************************************************************)
VARIABLES
  today,          \* the calendar day
  notifications,  \* SystemNotification rows, in creation order
  published,      \* real-time messages sent to the role groups
  cycle,          \* the analysis that has returned and awaits its caller
  task,           \* run_predictive_maintenance: phase, queue, alerts_sent
  scored,         \* a call of the health scorer: its arguments and its results
  cache,          \* django.core.cache: key -> entry
  ticks,          \* time, in steps of Tick seconds
  backend,        \* the Zabbix server: version of its listings, acknowledgements
  workers,        \* the listing call each worker is in
  call,           \* the last call of the client that has ended
  log             \* calls begun, acknowledgements confirmed to their callers

vars ==
  << today, notifications, published, cycle, task, scored,
     cache, ticks, backend, workers, call, log >>

analysisvars == << today, notifications, published, cycle, task, scored >>
cachevars == << cache, ticks, backend, workers, call, log >>

(***************************************************************************)
(* zabbix/client.py: ZabbixClient and the response cache.  The cache is    *)
(* django.core.cache: get returns the default once the entry's timeout has *)
(* passed, set replaces whatever the key holds.                            *)
(***************************************************************************)
MaxTicks == 1
MaxVersion == 1
MaxAcks == 1
MaxCalls == 2
Workers == { 1, 2 }

\* the listing methods and the timeout each passes to cache.set
Listings == { "hosts", "problems", "events" }
hosts_ttl == 60
problems_ttl == 30
items_ttl == 120
triggers_ttl == 60
events_ttl == 15
host_groups_ttl == 300
summary_ttl == 30
monitoring_ttl == 300

\* the model's step of time: the shortest timeout of the client
Tick == events_ttl

ListingTTL(kind) ==
  CASE kind = "hosts" -> hosts_ttl [] kind = "problems" -> problems_ttl
    [] kind = "items" -> items_ttl [] kind = "triggers" -> triggers_ttl
    [] kind = "events" -> events_ttl [] kind = "host_groups" -> host_groups_ttl

\* cache_key of a listing call (one argument list per method)
ListingKey(kind) ==
  CASE kind = "hosts" -> "zabbix_hosts_" [] kind = "problems" -> "zabbix_problems_"
    [] kind = "items" -> "zabbix_items_" [] kind = "triggers" -> "zabbix_triggers_"
    [] kind = "events" -> "zabbix_events_" [] kind = "host_groups" -> "zabbix_host_groups"

SummaryKey == "zabbix_dashboard_summary"
LastUpdateKey == "zabbix_last_update"
MonitoringKey(id) == IF id = 1 THEN "monitoring_data_1" ELSE "monitoring_data_2"

CacheKeys ==
  { ListingKey(kind) : kind \in Listings }
    \cup { SummaryKey, LastUpdateKey, MonitoringKey(1), MonitoringKey(2) }

\* an entry: the value, the time it expires at, and the number of
\* acknowledgements the backend had taken when the value was fetched
NoEntry == [present |-> FALSE]
Entry(value, expires, epoch) ==
  [present |-> TRUE, value |-> value, expires |-> expires, epoch |-> epoch]

Now == ticks * Tick

\* an entry cache.get would still return
Live(entry, now) == entry.present /\ entry.expires > now

\* cache.get that returns an entry whatever its age
CacheGetStale(store, key, now) ==
  IF store[key].present THEN [found |-> TRUE, value |-> store[key].value]
  ELSE [found |-> FALSE]

\* cache.get(key)
cache_get(store, key, now) ==
  IF Live(store[key], now) THEN [found |-> TRUE, value |-> store[key].value]
  ELSE [found |-> FALSE]

\* cache.set(key, value, timeout)
cache_set(store, key, value, timeout, now, epoch) ==
  [store EXCEPT ![key] = Entry(value, now + timeout, epoch)]

\* cache.delete_pattern("zabbix_problems_*")
delete_pattern(store) == [store EXCEPT ![ListingKey("problems")] = NoEntry]

\* "if cached_data:" for a listing: None and the empty list are both false
IsTruthyList(got) == got.found /\ Len(got.value) > 0

\* the rows the API returns for a listing
Rows(server) == [i \in 1..server.version |-> i]

NoCall == [kind |-> "none"]
IdleWorker == [pc |-> "idle"]

CacheInit ==
  /\ cache = [key \in CacheKeys |-> NoEntry]
  /\ ticks = 0
  /\ backend = [version |-> 0, acks |-> 0]
  /\ workers = [w \in Workers |-> IdleWorker]
  /\ call = NoCall
  /\ log = [begun |-> 0, confirmed |-> 0]

\* the scorer's arguments before it is called
Unscored(health_metrics, anomalies) ==
  [health_metrics |-> health_metrics, anomalies |-> anomalies, called |-> FALSE,
   health_score |-> None, risk_level |-> None]

NotScored == Unscored(<< >>, << >>)

Idle == [phase |-> "idle"]
TaskIdle == [phase |-> "idle", queue |-> << >>, alerts_sent |-> 0]

\* what the backend answers in a cycle
CpuReplies == { ApiError, Ok(Tail_(12, 92, << 99 >>)) }
MemoryReplies == { NoItem, Ok(Const(3, 96)) }

AllDown == MkMap(ApiError, NoItem, Ok(<< >>), NoItem, NoItem, NoItem, NoItem, NoItem)

\* the label maps tried for the streams of replies
LabelMaps(replies) ==
  LET L(m) == LabelSets(replies[m].samples)
  IN { MkMap(c, me, d, ch, u, ni, no, t) :
         c \in L("system.cpu.util"), me \in L("vm.memory.util"),
         d \in L("vfs.fs.size[/,pused]"), ch \in L("system.hw.chassis[info]"),
         u \in L("system.uptime"), ni \in L("net.if.in[eth0]"),
         no \in L("net.if.out[eth0]"), t \in L("sensor.temp.value") }

\* whether analyze_equipment_health gets as far as asking the backend
ReachesBackend(id) ==
  /\ id \in DOMAIN EquipmentDB
  /\ EquipmentDB[id].monitoring_enabled
  /\ ~Falsy(EquipmentDB[id].zabbix_hostid)

\* whether the cycle that ended in out reached the call fault makes fail
\* (a fault is drawn only for a cycle that meets it)
FaultMet(fault, out) ==
  \/ fault = "none"
  \/ fault = "scoring" /\ "health_metrics" \in DOMAIN out.result
  \/ /\ fault \in {"create", "send"}
     /\ "health_metrics" \in DOMAIN out.result
     /\ out.result.risk_level \in {"high", "critical"}

Init ==
  /\ today = 0
  /\ notifications = << >>
  /\ published = << >>
  /\ cycle = Idle
  /\ task = TaskIdle
  /\ CacheInit
  /\ scored = NotScored

\* the body of analyze_equipment_health, for either caller
Analyze(caller, id, env) ==
  LET out == analyze_equipment_health(id, env, today)
  IN /\ FaultMet(env.fault, out)
     /\ cycle' = [phase |-> "done", caller |-> caller, equipment_id |-> id,
                  env |-> env, out |-> out, day |-> today]
     /\ notifications' = notifications \o out.created
     /\ published' = published \o out.sent

\* one analysis of asset id, in any environment built from the replies
\* C, M, ... of the eight metrics and the faults; without a connection, and
\* for an asset that never reaches the backend, no metric is answered
MeetsWith(id, caller, faults, C, M, D, CH, U, NI, NO, T, P) ==
  \E connected \in BOOLEAN, past \in P :
    LET live == connected /\ ReachesBackend(id)
        of(S, m) == IF live THEN S ELSE { AllDown[m] }
    IN \E c \in of(C, "system.cpu.util"), me \in of(M, "vm.memory.util"),
          d \in of(D, "vfs.fs.size[/,pused]"), ch \in of(CH, "system.hw.chassis[info]"),
          u \in of(U, "system.uptime"), ni \in of(NI, "net.if.in[eth0]"),
          no \in of(NO, "net.if.out[eth0]"), t \in of(T, "sensor.temp.value") :
         LET r == MkMap(c, me, d, ch, u, ni, no, t)
         IN \E l \in LabelMaps(r), f \in faults :
              Analyze(caller, id, [connected |-> connected, replies |-> r,
                                   labels |-> l, past |-> past, fault |-> f])

\* the same with the interventions the table holds for the asset
Meets(id, caller, faults, C, M, D, CH, U, NI, NO, T) ==
  MeetsWith(id, caller, faults, C, M, D, CH, U, NI, NO, T, { Completed(id) })

\* a view calls service.analyze_equipment_health(equipment_id)
AnalyzeCall ==
  /\ cycle.phase = "idle"
  /\ Len(notifications) < MaxNotifications
  /\ \E id \in EquipmentIds : Meets(id, "view", RunFaults, CpuReplies, MemoryReplies,
         {Ok(<< >>)}, {NoItem}, {NoItem}, {NoItem}, {NoItem}, {NoItem})
  /\ UNCHANGED << today, task, scored >>
  /\ UNCHANGED cachevars

\* the view returns the analysis to its client
Deliver ==
  /\ cycle.phase = "done"
  /\ cycle.caller = "view"
  /\ cycle' = Idle
  /\ UNCHANGED << today, notifications, published, task, scored >>
  /\ UNCHANGED cachevars

\* Equipment.objects.filter(monitoring_enabled=True,
\*   status__in=['available', 'assigned']).exclude(zabbix_hostid__isnull=True)
RECURSIVE MonitoredFrom(_)
MonitoredFrom(id) ==
  IF id \notin DOMAIN EquipmentDB THEN << >>
  ELSE (IF /\ EquipmentDB[id].monitoring_enabled
           /\ EquipmentDB[id].status \in {"available", "assigned"}
           /\ EquipmentDB[id].zabbix_hostid # None
        THEN << id >> ELSE << >>) \o MonitoredFrom(id + 1)

monitored_equipment == MonitoredFrom(1)

\* an asset the queryset listed whose row is deleted before its turn comes
GoneId == 6

\* run_predictive_maintenance starts: the queryset is evaluated
TaskStart ==
  /\ task.phase = "idle"
  /\ Len(notifications) < MaxNotifications
  /\ \E gone \in BOOLEAN :
       task' = [phase |-> "running",
                queue |-> (IF gone THEN << GoneId >> ELSE << >>) \o monitored_equipment,
                alerts_sent |-> 0]
  /\ UNCHANGED << today, notifications, published, cycle, scored >>
  /\ UNCHANGED cachevars

\* loop body, first half: analysis = service.analyze_equipment_health(...)
TaskAnalyze ==
  /\ task.phase = "running"
  /\ task.queue # << >>
  /\ cycle.phase = "idle"
  /\ Meets(Head(task.queue), "task", RunFaults, CpuReplies, MemoryReplies,
           {Ok(<< >>)}, {NoItem}, {NoItem}, {NoItem}, {NoItem}, {NoItem})
  /\ UNCHANGED << today, task, scored >>
  /\ UNCHANGED cachevars

\* analysis.get('risk_level')
GetRiskLevel(result) ==
  IF "risk_level" \in DOMAIN result THEN result.risk_level ELSE None

\* "if analysis.get('risk_level') in ['high', 'critical']"
IsHighRisk(risk_level) == risk_level \in {"high", "critical"}

\* the loop body reading analysis['risk_level']: a result without the key
\* raises KeyError and the task's except ends the run
TaskAlertStrict ==
  /\ cycle.phase = "done"
  /\ cycle.caller = "task"
  /\ cycle' = Idle
  /\ notifications' = notifications
  /\ task' = IF "risk_level" \in DOMAIN cycle.out.result
             THEN [task EXCEPT !.queue = Tail(@)] ELSE TaskIdle
  /\ UNCHANGED << today, published, scored >>
  /\ UNCHANGED cachevars

\* loop body, second half: the 'asset_alert' notification.  created is FALSE
\* when SystemNotification.objects.create raises: the task's except ends the run.
TaskAlert ==
  /\ cycle.phase = "done"
  /\ cycle.caller = "task"
  /\ cycle' = Idle
  /\ IF IsHighRisk(GetRiskLevel(cycle.out.result))
     THEN \E created \in BOOLEAN :
            IF created
            THEN /\ notifications' = notifications \o
                      << Notification("asset_alert", cycle.equipment_id,
                                      cycle.out.result, today) >>
                 /\ task' = [task EXCEPT !.queue = Tail(@), !.alerts_sent = @ + 1]
            ELSE /\ notifications' = notifications
                 /\ task' = TaskIdle
     ELSE /\ notifications' = notifications
          /\ task' = [task EXCEPT !.queue = Tail(@)]
  /\ UNCHANGED << today, published, scored >>
  /\ UNCHANGED cachevars

\* the loop is over: the task returns its summary
TaskFinish ==
  /\ task.phase = "running"
  /\ task.queue = << >>
  /\ cycle.phase = "idle"
  /\ task' = TaskIdle
  /\ UNCHANGED << today, notifications, published, cycle, scored >>
  /\ UNCHANGED cachevars

\* midnight
NextDay ==
  /\ today < MaxDay
  /\ today' = today + 1
  /\ UNCHANGED << notifications, published, cycle, task, scored >>
  /\ UNCHANGED cachevars

(***************************************************************************)
(* One analysis cycle at a time, over a wider range of backend answers     *)
(***************************************************************************)
\* 181 samples at 50, twenty dips to 5 and one peak of 99
LongCpu ==
  [i \in 1..202 |-> Sample(i, IF i <= 181 THEN 50 ELSE IF i <= 201 THEN 5 ELSE 99)]

CycleCpu ==
  { ApiError, Ok(Tail_(12, 92, << 99 >>)), Ok(Tail_(12, 50, << 99, 10 >>)) }
CycleMemory == { NoItem, Ok(Const(3, 96)) }
CycleDisk == { Ok(<< >>), Ok(Tail_(12, 96, << 99 >>)) }
CycleChassis == { NoItem, Ok(Text(10)) }
CycleUptime == { NoItem, Ok(Const(6, 3600)) }
CycleNetIn == { NoItem, Ok(Const(3, 1000)) }
CycleNetOut == { NoItem }
CycleTemp == { NoItem, Ok(Tail_(12, 85, << 90 >>)) }

\* streams one sample short of what anomaly detection asks for, each with
\* a point that stands out
ShortCpu == { Ok(Tail_(9, 92, << 99 >>)), Ok(Tail_(12, 92, << 99 >>)) }
ShortMemory == { ApiError, NoItem, Ok(Const(3, 96)) }
ShortTemp == { NoItem, Ok(Tail_(9, 70, << 90 >>)) }

\* histories of completed interventions: none, one, two, three a month
\* apart, three more than a year apart
Histories ==
  { << >>, << -10 >>, << -10, -40 >>, << -10, -40, -70 >>, << -10, -410, -810 >> }

\* what a cycle may meet: the faults, the replies per metric, the histories
Inputs(faults, C, M, D, CH, U, NI, NO, T, P) ==
  [faults |-> faults, cpu |-> C, memory |-> M, disk |-> D, chassis |-> CH,
   uptime |-> U, net_in |-> NI, net_out |-> NO, temp |-> T, past |-> P]

\* any mix of answers over the metrics, with the interventions the table
\* holds for the asset
WideInputs(id) ==
  Inputs(Faults, CycleCpu, CycleMemory, CycleDisk, CycleChassis, CycleUptime,
         CycleNetIn, CycleNetOut, CycleTemp, { Completed(id) })

\* only the cpu item answers, with a long history
LongInputs(id) ==
  Inputs(Faults, {Ok(LongCpu)}, {NoItem}, {Ok(<< >>)}, {NoItem}, {NoItem}, {NoItem},
         {NoItem}, {NoItem}, { Completed(id) })

\* an asset with any history of completed interventions
HistoryInputs ==
  Inputs({"none"}, CpuReplies, MemoryReplies, {Ok(<< >>)}, {NoItem}, {NoItem}, {NoItem},
         {NoItem}, {NoItem}, Histories)

\* an asset with short streams
ShortInputs(id) ==
  Inputs({"none"}, ShortCpu, ShortMemory, {Ok(<< >>)}, {NoItem}, {NoItem}, {NoItem},
         {NoItem}, ShortTemp, { Completed(id) })

\* an asset whose memory item returns text, between numeric streams
TextInputs(id) ==
  Inputs({"none"}, {Ok(Tail_(12, 92, << 99 >>))}, {Ok(Text(3)), Ok(Text(12))},
         {Ok(Const(3, 96))}, {NoItem}, {NoItem}, {NoItem}, {NoItem},
         {Ok(Tail_(12, 85, << 90 >>))}, { Completed(id) })

CycleInputs(id) ==
  { WideInputs(id), LongInputs(id), HistoryInputs, ShortInputs(id), TextInputs(id) }

\* a view calls service.analyze_equipment_health(equipment_id), the
\* notification table being empty
AnalyzeOnce ==
  /\ cycle.phase = "idle"
  /\ notifications = << >>
  /\ \E id \in EquipmentIds : \E inp \in CycleInputs(id) :
       MeetsWith(id, "view", inp.faults, inp.cpu, inp.memory, inp.disk, inp.chassis,
                 inp.uptime, inp.net_in, inp.net_out, inp.temp, inp.past)
  /\ UNCHANGED << today, task, scored >>
  /\ UNCHANGED cachevars

NextCycle ==
  \/ AnalyzeOnce
  \/ Deliver

SpecCycle == Init /\ [][NextCycle]_vars

(***************************************************************************)
(* The health scorer on its own: _calculate_health_score and               *)
(* _determine_risk_level applied to summaries and an anomaly list          *)
(***************************************************************************)
\* a summary whose average is avg
Avg(avg) == [sum |-> avg, n |-> 1, max |-> avg, trend |-> [num |-> 0, den |-> 1]]
Up(restarts) == [current |-> 0, sum |-> 0, n |-> restarts, restarts |-> restarts]

\* per family: no summary, or an average at or just above a threshold
Absent == [present |-> FALSE]
Present(summary) == [present |-> TRUE, summary |-> summary]
Levels(warning, critical) ==
  { Absent } \cup { Present(Avg(a)) : a \in {warning, warning + 1, critical, critical + 1} }
UptimeLevels == { Absent, Present(Up(RestartLimit)), Present(Up(RestartLimit + 1)) }

Summaries(c, me, d, t, u) ==
  LET pick(fam) == CASE fam = "cpu" -> c [] fam = "memory" -> me [] fam = "disk" -> d
                     [] fam = "temperature" -> t [] fam = "uptime" -> u
      fams == { fam \in {"cpu", "memory", "disk", "temperature", "uptime"} :
                  pick(fam).present }
  IN [fam \in fams |-> pick(fam).summary]

\* an anomaly of the cpu stream with the given severity
CpuAnomaly(severity, clock) ==
  Anomaly("system.cpu.util",
          Sample(clock, CASE severity = "critical" -> 99 [] severity = "high" -> 90
                          [] severity = "medium" -> 10))

Scored(health_metrics, anomalies) ==
  LET health_score == _calculate_health_score(health_metrics, anomalies)
  IN [health_metrics |-> health_metrics, anomalies |-> anomalies, called |-> TRUE,
      health_score |-> health_score,
      risk_level |-> _determine_risk_level(health_score, anomalies)]

InitScore ==
  /\ today = 0
  /\ notifications = << >>
  /\ published = << >>
  /\ cycle = Idle
  /\ task = TaskIdle
  /\ CacheInit
  /\ \E c \in Levels(cpu_warning, cpu_critical),
        me \in Levels(memory_warning, memory_critical),
        d \in Levels(disk_warning, disk_critical),
        t \in Levels(temperature_warning, temperature_critical),
        u \in UptimeLevels :
       scored = Unscored(Summaries(c, me, d, t, u), << >>)

\* _calculate_health_score and _determine_risk_level are applied
ScoreCall ==
  /\ ~scored.called
  /\ scored' = Scored(scored.health_metrics, scored.anomalies)
  /\ UNCHANGED << today, notifications, published, cycle, task >>
  /\ UNCHANGED cachevars

\* the scorer is called again with one more anomaly in the list
AddAnomaly ==
  /\ scored.called
  /\ Len(scored.anomalies) < MaxAnoms
  /\ \E severity \in {"critical", "high", "medium"} :
       scored' = Scored(scored.health_metrics,
                        Append(scored.anomalies,
                               CpuAnomaly(severity, MaxAnoms - Len(scored.anomalies))))
  /\ UNCHANGED << today, notifications, published, cycle, task >>
  /\ UNCHANGED cachevars

NextScore ==
  \/ ScoreCall
  \/ AddAnomaly

SpecScore == InitScore /\ [][NextScore]_vars

(***************************************************************************)
(* The trend function on its own: _calculate_trend applied to sequences    *)
(* of 0..MaxTrendLen values whose timestamps are unevenly spaced           *)
(***************************************************************************)
MaxTrendLen == 4
TrendValues == { 0, 3, 10 }

\* the values as samples taken at clocks 1, 4, 9, ...
Spaced(values) == [i \in 1..Len(values) |-> Sample(i * i, values[i])]

TrendInputs == UNION { [1..n -> TrendValues] : n \in 0..MaxTrendLen }

InitTrend ==
  /\ today = 0
  /\ notifications = << >>
  /\ published = << >>
  /\ cycle = Idle
  /\ task = TaskIdle
  /\ CacheInit
  /\ \E values \in TrendInputs : scored = [called |-> FALSE, values |-> Spaced(values)]

\* _calculate_trend is applied
TrendCall ==
  /\ ~scored.called
  /\ scored' = [called |-> TRUE, values |-> scored.values,
                slope |-> _calculate_trend(scored.values)]
  /\ UNCHANGED << today, notifications, published, cycle, task >>
  /\ UNCHANGED cachevars

NextTrend == TrendCall

SpecTrend == InitTrend /\ [][NextTrend]_vars

Next ==
  \/ AnalyzeCall
  \/ Deliver
  \/ TaskStart
  \/ TaskAnalyze
  \/ TaskAlert
  \/ TaskFinish
  \/ NextDay

Spec == Init /\ [][Next]_vars

(***************************************************************************)
(* The calls of the Zabbix client, the monitoring-data cache and its two   *)
(* writers.  A listing method is taken in three steps (cache lookup, API   *)
(* request, cache.set) so that two workers can be inside it together.      *)
(***************************************************************************)
\* what the API does with a request: it answers, it raises
\* ZabbixAPIException, or no connection can be made
Answers == { "ok", "api_error", "down" }

\* the record of a listing call that has ended: what it returned, the
\* requests it made, whether the value came from the cache, whether the key
\* held an unexpired entry when the call began (and its value), whether it
\* wrote the cache, whether the API raised ZabbixAPIException, and whether
\* the data it returned was fetched before an acknowledgement that had
\* returned True when the call began
ListingEnded(kind, outcome, value, requests, hit, fresh, seen, wrote, failed, epoch, confirmed) ==
  [kind |-> kind, outcome |-> outcome, value |-> value, requests |-> requests,
   hit |-> hit, fresh |-> fresh, held |-> IF fresh THEN << seen.value >> ELSE << >>,
   wrote |-> wrote, failed |-> failed, stale |-> epoch < confirmed]

\* get_hosts, get_problems, ...: cache_key, cache.get, "if cached_data"
ListBegin(w, kind) ==
  /\ workers[w].pc = "idle"
  /\ log.begun < MaxCalls
  /\ LET key == ListingKey(kind)
         got == cache_get(cache, key, Now)
         fresh == Live(cache[key], Now)
     IN IF IsTruthyList(got)
        THEN /\ call' = ListingEnded(kind, "returned", got.value, 0, TRUE, fresh,
                                     cache[key], FALSE, FALSE, cache[key].epoch,
                                     log.confirmed)
             /\ workers' = workers
        ELSE /\ workers' = [workers EXCEPT ![w] =
                              [pc |-> "fetch", kind |-> kind, seen |-> cache[key],
                               fresh |-> fresh, confirmed |-> log.confirmed]]
             /\ call' = call
  /\ log' = [log EXCEPT !.begun = @ + 1]
  /\ UNCHANGED << cache, ticks, backend >>
  /\ UNCHANGED analysisvars

\* _ensure_connection and self.api.<method>.get(**params)
ListFetch(w) ==
  /\ workers[w].pc = "fetch"
  /\ LET me == workers[w]
     IN \E answer \in Answers :
          \/ /\ answer = "ok"
             /\ workers' = [workers EXCEPT ![w] =
                              [pc |-> "store", kind |-> me.kind, seen |-> me.seen,
                               fresh |-> me.fresh, confirmed |-> me.confirmed,
                               response |-> Rows(backend), epoch |-> backend.acks]]
             /\ call' = call
          \/ /\ answer = "api_error"
             /\ workers' = [workers EXCEPT ![w] = IdleWorker]
             /\ call' = ListingEnded(me.kind, "returned", << >>, 1, FALSE, me.fresh,
                                     me.seen, FALSE, TRUE, backend.acks, me.confirmed)
          \/ /\ answer = "down"
             /\ workers' = [workers EXCEPT ![w] = IdleWorker]
             /\ call' = ListingEnded(me.kind, "raised", << >>, 0, FALSE, me.fresh,
                                     me.seen, FALSE, FALSE, backend.acks, me.confirmed)
  /\ UNCHANGED << cache, ticks, backend, log >>
  /\ UNCHANGED analysisvars

\* cache.set(cache_key, rows, ttl) and the return
ListStore(w) ==
  /\ workers[w].pc = "store"
  /\ LET me == workers[w]
     IN /\ cache' = cache_set(cache, ListingKey(me.kind), me.response,
                              ListingTTL(me.kind), Now, me.epoch)
        /\ call' = ListingEnded(me.kind, "returned", me.response, 1, FALSE, me.fresh,
                                me.seen, TRUE, FALSE, me.epoch, me.confirmed)
  /\ workers' = [workers EXCEPT ![w] = IdleWorker]
  /\ UNCHANGED << ticks, backend, log >>
  /\ UNCHANGED analysisvars

\* ZabbixService.get_history_data, called for one metric
HistoryReplies == { ApiError, NoItem, Ok(<< >>), Ok(Const(3, 96)) }

HistoryCall ==
  /\ log.begun < MaxCalls
  /\ \E connected \in BOOLEAN, reply \in HistoryReplies :
       call' = [kind |-> "history", outcome |-> "returned", connected |-> connected,
                value |-> get_history_data(connected, reply),
                requests |-> HistoryRequests(connected, reply), hit |-> FALSE]
  /\ log' = [log EXCEPT !.begun = @ + 1]
  /\ UNCHANGED << cache, ticks, backend, workers >>
  /\ UNCHANGED analysisvars

\* acknowledge_problem.  patterns tells whether the configured cache
\* backend has delete_pattern (django-redis has, Django's own backends raise
\* AttributeError, which the method does not catch).
acknowledge_problem(store, server, answer, patterns) ==
  IF answer = "down" THEN [outcome |-> "raised", store |-> store, server |-> server]
  ELSE IF answer = "api_error"
  THEN [outcome |-> "returned", value |-> FALSE, store |-> store, server |-> server]
  ELSE LET acked == [server EXCEPT !.acks = @ + 1]
       IN IF patterns
          THEN [outcome |-> "returned", value |-> TRUE, store |-> delete_pattern(store),
                server |-> acked]
          ELSE [outcome |-> "raised", store |-> store, server |-> acked]

Acknowledge ==
  /\ backend.acks < MaxAcks
  /\ \E answer \in Answers, patterns \in BOOLEAN :
       LET r == acknowledge_problem(cache, backend, answer, patterns)
       IN /\ cache' = r.store
          /\ backend' = r.server
          /\ call' = IF r.outcome = "raised"
                     THEN [kind |-> "acknowledge", outcome |-> "raised", hit |-> FALSE]
                     ELSE [kind |-> "acknowledge", outcome |-> "returned",
                           value |-> r.value, hit |-> FALSE]
          /\ log' = [begun |-> log.begun,
                     confirmed |-> IF r.outcome = "returned" /\ r.value
                                   THEN log.confirmed + 1 ELSE log.confirmed]
  /\ UNCHANGED << ticks, workers >>
  /\ UNCHANGED analysisvars

\* a listing method from its cache lookup to its return, in one piece
ListingCall(store, kind, answer, now, server) ==
  LET key == ListingKey(kind)
      got == cache_get(store, key, now)
  IN IF IsTruthyList(got)
     THEN [raised |-> FALSE, value |-> got.value, store |-> store, requests |-> 0,
           hit |-> TRUE, wrote |-> FALSE, failed |-> FALSE, epoch |-> store[key].epoch]
     ELSE IF answer = "down"
     THEN [raised |-> TRUE, value |-> << >>, store |-> store, requests |-> 0,
           hit |-> FALSE, wrote |-> FALSE, failed |-> FALSE, epoch |-> server.acks]
     ELSE IF answer = "api_error"
     THEN [raised |-> FALSE, value |-> << >>, store |-> store, requests |-> 1,
           hit |-> FALSE, wrote |-> FALSE, failed |-> TRUE, epoch |-> server.acks]
     ELSE [raised |-> FALSE, value |-> Rows(server),
           store |-> cache_set(store, key, Rows(server), ListingTTL(kind), now, server.acks),
           requests |-> 1, hit |-> FALSE, wrote |-> TRUE, failed |-> FALSE,
           epoch |-> server.acks]

\* one caller alone in a listing method
ListCall ==
  /\ log.begun < MaxCalls
  /\ \E kind \in Listings, answer \in Answers :
       LET r == ListingCall(cache, kind, answer, Now, backend)
           seen == cache[ListingKey(kind)]
       IN /\ cache' = r.store
          /\ call' = ListingEnded(kind, IF r.raised THEN "raised" ELSE "returned", r.value,
                                  r.requests, r.hit, Live(seen, Now), seen, r.wrote,
                                  r.failed, r.epoch, log.confirmed)
  /\ log' = [log EXCEPT !.begun = @ + 1]
  /\ UNCHANGED << ticks, backend, workers >>
  /\ UNCHANGED analysisvars

\* the dict returned from the except branch
ErrorSummary == [total_hosts |-> 0, total_problems |-> 0, last_updated |-> "Error"]

\* get_dashboard_summary (the counts by status and severity are left out)
get_dashboard_summary(store, answer, now, server) ==
  LET got == cache_get(store, SummaryKey, now)
  IN IF got.found
     THEN [value |-> got.value, store |-> store, requests |-> 0, hit |-> TRUE,
           epoch |-> store[SummaryKey].epoch]
     ELSE
     LET hosts == ListingCall(store, "hosts", answer, now, server)
         problems == ListingCall(hosts.store, "problems", answer, now, server)
     IN IF hosts.raised
        THEN [value |-> ErrorSummary, store |-> hosts.store, requests |-> hosts.requests,
              hit |-> FALSE, epoch |-> server.acks]
        ELSE IF problems.raised
        THEN [value |-> ErrorSummary, store |-> problems.store,
              requests |-> hosts.requests + problems.requests, hit |-> FALSE,
              epoch |-> server.acks]
        ELSE
        LET last == cache_get(problems.store, LastUpdateKey, now)
            summary == [total_hosts |-> Len(hosts.value),
                        total_problems |-> Len(problems.value),
                        last_updated |-> IF last.found THEN last.value ELSE "Never"]
            stored == cache_set(problems.store, SummaryKey, summary, summary_ttl, now,
                                problems.epoch)
        IN [value |-> summary,
            store |-> cache_set(stored, LastUpdateKey, "Just now", summary_ttl, now,
                                server.acks),
            requests |-> hosts.requests + problems.requests, hit |-> FALSE,
            epoch |-> problems.epoch]

Dashboard ==
  /\ log.begun < MaxCalls
  /\ \E answer \in Answers :
       LET r == get_dashboard_summary(cache, answer, Now, backend)
       IN /\ cache' = r.store
          /\ call' = [kind |-> "summary", outcome |-> "returned", value |-> r.value,
                      requests |-> r.requests, hit |-> r.hit,
                      fresh |-> Live(cache[SummaryKey], Now),
                      stale |-> r.epoch < log.confirmed]
  /\ log' = [log EXCEPT !.begun = @ + 1]
  /\ UNCHANGED << ticks, backend, workers >>
  /\ UNCHANGED analysisvars

\* ZabbixIntegrationService.get_host_monitoring_data: the data, or the
\* dict of the except branch
get_host_monitoring_data(server, answer) ==
  IF answer = "ok" THEN [success |-> TRUE, items |-> Rows(server)]
  ELSE [success |-> FALSE, error |-> answer]

\* update_monitoring_data: the loop over the monitored equipment with a
\* host id (asset 1), cache.set for whatever the fetch returned
UpdateTask ==
  /\ log.begun < MaxCalls
  /\ \E answer \in Answers :
       LET data == get_host_monitoring_data(backend, answer)
       IN /\ cache' = cache_set(cache, MonitoringKey(1), data, monitoring_ttl, Now,
                                backend.acks)
          /\ call' = [kind |-> "update_task", outcome |-> "returned", value |-> data,
                      hit |-> FALSE]
  /\ log' = [log EXCEPT !.begun = @ + 1]
  /\ UNCHANGED << ticks, backend, workers >>
  /\ UNCHANGED analysisvars

\* the assets equipment_monitoring_detail looks data up for
HasHost(id) == id \in DOMAIN EquipmentDB /\ ~Falsy(EquipmentDB[id].zabbix_hostid)

\* equipment_monitoring_detail, for a user allowed to see the asset
DetailView ==
  /\ log.begun < MaxCalls
  /\ \E id \in { i \in EquipmentIds : HasHost(i) }, answer \in Answers :
       LET key == MonitoringKey(id)
           got == cache_get(cache, key, Now)
           data == get_host_monitoring_data(backend, answer)
       IN IF got.found
          THEN /\ cache' = cache
               /\ call' = [kind |-> "detail", outcome |-> "returned", value |-> got.value,
                           hit |-> TRUE, fresh |-> Live(cache[key], Now)]
          ELSE /\ cache' = IF data.success
                           THEN cache_set(cache, key, data, monitoring_ttl, Now,
                                          backend.acks)
                           ELSE cache
               /\ call' = [kind |-> "detail", outcome |-> "returned", value |-> data,
                           hit |-> FALSE, fresh |-> FALSE]
  /\ log' = [log EXCEPT !.begun = @ + 1]
  /\ UNCHANGED << ticks, backend, workers >>
  /\ UNCHANGED analysisvars

\* Tick seconds pass
Pass ==
  /\ ticks < MaxTicks
  /\ ticks' = ticks + 1
  /\ UNCHANGED << cache, backend, workers, call, log >>
  /\ UNCHANGED analysisvars

\* the monitored hosts change: every listing gets one more row
BackendChange ==
  /\ backend.version < MaxVersion
  /\ backend' = [backend EXCEPT !.version = @ + 1]
  /\ UNCHANGED << cache, ticks, workers, call, log >>
  /\ UNCHANGED analysisvars

NextCache ==
  \/ ListCall
  \/ HistoryCall
  \/ Acknowledge
  \/ Dashboard
  \/ Pass
  \/ BackendChange

SpecCache == Init /\ [][NextCache]_vars

\* two workers inside the listing methods together
NextWorkers ==
  \/ \E w \in Workers, kind \in Listings : ListBegin(w, kind)
  \/ \E w \in Workers : ListFetch(w)
  \/ \E w \in Workers : ListStore(w)
  \/ Pass
  \/ BackendChange

SpecWorkers == Init /\ [][NextWorkers]_vars

NextMonitoring ==
  \/ UpdateTask
  \/ DetailView
  \/ Pass
  \/ BackendChange

SpecMonitoring == Init /\ [][NextMonitoring]_vars

(***************************************************************************)
(* Properties                                                              *)
(***************************************************************************)
Result == cycle.out.result
Returned == cycle.phase = "done"
Assessed == Returned /\ "health_score" \in DOMAIN Result
\* the cycle ran the analyses (it did not end in an early return)
Analysed == Returned /\ "health_metrics" \in DOMAIN Result

\* severity as the specification orders it
Rank(severity) ==
  CASE severity = "critical" -> 3 [] severity = "high" -> 2 [] severity = "medium" -> 1

Min(a, b) == IF a < b THEN a ELSE b

\* C1: for one asset, one calendar day and one risk level (high or
\* critical), at most one alert of a kind is recorded, however many cycles ran.
C1_AlertOncePerAssetDayRisk ==
  \A i, j \in 1..Len(notifications) :
    (/\ notifications[i].notification_type = notifications[j].notification_type
     /\ notifications[i].related_equipment = notifications[j].related_equipment
     /\ notifications[i].day = notifications[j].day
     /\ notifications[i].risk_level = notifications[j].risk_level) => i = j

\* two cycles of one day recorded the same maintenance alert for one asset
C1_Witness ==
  \E i, j \in 1..Len(notifications) :
    /\ i < j
    /\ notifications[i] = notifications[j]
    /\ notifications[i].notification_type = "maintenance_due"

\* C2: every returned assessment that carries a health score has
\* 0 <= health_score <= 100.
C2_HealthScoreInRange ==
  Assessed => (Result.health_score >= 0 /\ Result.health_score <= 100)

\* a cycle whose penalties exceed 100 returned the score 0
C2_Witness ==
  /\ Analysed
  /\ {"cpu", "memory", "disk", "temperature", "uptime"} \subseteq DOMAIN Result.health_metrics
  /\ CountSeverity(Result.anomalies, "critical") > 0
  /\ Result.health_score = 0

\* C3: the risk level is critical if a critical anomaly is present or the
\* score is below 30, else high below 50, else medium below 70, else low.
C3_RiskLevelDerivation ==
  scored.called =>
  LET score == scored.health_score
      crit == \E i \in 1..Len(scored.anomalies) : scored.anomalies[i].severity = "critical"
  IN /\ (crit \/ score < 30) => scored.risk_level = "critical"
     /\ (~crit /\ score >= 30 /\ score < 50) => scored.risk_level = "high"
     /\ (~crit /\ score >= 50 /\ score < 70) => scored.risk_level = "medium"
     /\ (~crit /\ score >= 70) => scored.risk_level = "low"

\* score 30 without a critical anomaly is high
C3_Witness ==
  /\ scored.called
  /\ scored.health_score = 30
  /\ scored.risk_level = "high"
  /\ \A i \in 1..Len(scored.anomalies) : scored.anomalies[i].severity # "critical"

\* C4: a cycle that ends with no metric summary and no anomaly returns
\* score 50 and risk unknown.
C4_NoSummariesIsUnknown ==
  LET summaries == IF "health_metrics" \in DOMAIN Result
                   THEN DOMAIN Result.health_metrics ELSE {}
  IN (Assessed /\ summaries = {} /\ Result.anomalies = << >>)
       => (Result.health_score = 50 /\ Result.risk_level = "unknown")

\* only a stream without summary answered, nothing failed: 100 and low
C4_Witness ==
  /\ Analysed
  /\ cycle.env.fault = "none"
  /\ DOMAIN Result.health_metrics = {}
  /\ Result.anomalies = << >>
  /\ Result.health_score = 100
  /\ Result.risk_level = "low"

\* C5: a notification row or a real-time message is added only by a cycle
\* whose assessment has risk level high or critical, and for that cycle's asset.
C5_AlertOnlyOnHighRisk ==
  [][ (notifications' # notifications \/ published' # published) =>
        LET c == IF cycle'.phase = "done" THEN cycle' ELSE cycle
        IN /\ c.phase = "done"
           /\ "risk_level" \in DOMAIN c.out.result
           /\ c.out.result.risk_level \in {"high", "critical"}
           /\ \A i \in (Len(notifications) + 1)..Len(notifications') :
                /\ notifications'[i].related_equipment = c.equipment_id
                /\ notifications'[i].risk_level = c.out.result.risk_level
           /\ \A i \in (Len(published) + 1)..Len(published') :
                published'[i].equipment = c.equipment_id
    ]_vars

\* a cycle recorded and published its alert
C5_Witness ==
  /\ Returned
  /\ cycle.out.created # << >>
  /\ cycle.out.sent # << >>
  /\ Result.risk_level = "high"

\* C6: for an asset whose monitoring flag is off or whose host reference is
\* missing the analysis returns score 50, risk unknown, the enable-monitoring
\* hint, no anomaly and no prediction, and asks neither the backend nor the
\* maintenance history.
C6_DisabledMonitoring ==
  (/\ Returned
   /\ cycle.equipment_id \in DOMAIN EquipmentDB
   /\ \/ ~EquipmentDB[cycle.equipment_id].monitoring_enabled
      \/ EquipmentDB[cycle.equipment_id].zabbix_hostid \in {None, ""})
  => /\ Result.health_score = 50
     /\ Result.risk_level = "unknown"
     /\ \E i \in 1..Len(Result.maintenance_recommendations) :
          Result.maintenance_recommendations[i] = "Enable monitoring to get health insights"
     /\ Result.anomalies = << >>
     /\ Result.predicted_failure_date = NoDate
     /\ cycle.out.backend_requests = 0
     /\ ~cycle.out.history_queried
     /\ cycle.out.created = << >>

\* an asset with monitoring on and an empty host reference was analysed
\* while the backend was ready to answer
C6_Witness ==
  /\ Returned
  /\ cycle.equipment_id = 3
  /\ cycle.env.connected
  /\ Result.risk_level = "unknown"

\* the anomalies the detector flagged in the cycle, before sort and cut
FlaggedInCycle ==
  ScanFrom(_get_monitoring_data(cycle.env.connected, cycle.env.replies),
           cycle.env.labels, 1)

\* C7: the returned anomalies are ordered critical, high, medium and by
\* timestamp descending within a severity, and the 20 retained are the most
\* severe of those flagged.
C7_AnomaliesMostSevereFirst ==
  Analysed =>
    LET a == Result.anomalies
        all == FlaggedInCycle
        crit == Min(TopAnomalies, CountSeverity(all, "critical"))
    IN /\ \A i, j \in 1..Len(a) :
            i < j => \/ Rank(a[i].severity) > Rank(a[j].severity)
                     \/ /\ a[i].severity = a[j].severity
                        /\ a[i].timestamp >= a[j].timestamp
       /\ CountSeverity(a, "critical") = crit
       /\ CountSeverity(a, "high") =
            Min(TopAnomalies - crit, CountSeverity(all, "high"))

\* a medium anomaly is returned ahead of a critical one
C7_Witness ==
  /\ Analysed
  /\ cycle.env.fault = "none"
  /\ Len(Result.anomalies) = 2
  /\ Result.anomalies[1].severity = "medium"
  /\ Result.anomalies[2].severity = "critical"

\* C8: a cycle in which the detector flagged a critical sample returns
\* risk level critical.
C8_CriticalAnomalyForcesCritical ==
  (/\ Analysed
   /\ \E i \in 1..Len(FlaggedInCycle) : FlaggedInCycle[i].severity = "critical")
  => Result.risk_level = "critical"

\* 21 samples flagged, one of them critical: the 20 kept are the medium
\* ones and the risk level is low
C8_Witness ==
  /\ Analysed
  /\ cycle.env.fault = "none"
  /\ Len(FlaggedInCycle) = TopAnomalies + 1
  /\ CountSeverity(FlaggedInCycle, "critical") = 1
  /\ CountSeverity(Result.anomalies, "critical") = 0
  /\ Result.risk_level = "low"

\* the penalties of the specification, summed
Tier(fam, critical, warning, pc, pw) ==
  IF fam \notin DOMAIN scored.health_metrics THEN 0
  ELSE LET m == scored.health_metrics[fam]
       IN IF m.sum > critical * m.n THEN pc
          ELSE IF m.sum > warning * m.n THEN pw ELSE 0

Penalty ==
    Tier("cpu", 90, 80, 30, 15) + Tier("memory", 95, 85, 25, 12)
  + Tier("disk", 95, 85, 20, 10) + Tier("temperature", 80, 70, 25, 10)
  + 10 * Cardinality({ i \in 1..Len(scored.anomalies) :
                         scored.anomalies[i].severity = "critical" })
  + 5 * Cardinality({ i \in 1..Len(scored.anomalies) :
                        scored.anomalies[i].severity = "high" })
  + (IF "uptime" \in DOMAIN scored.health_metrics
        /\ scored.health_metrics["uptime"].restarts > 5 THEN 15 ELSE 0)

\* C9: the score is 100 minus the sum of the penalties, kept within [0, 100].
C9_ScoreIsHundredMinusPenalties ==
  scored.called => scored.health_score =
    (IF 100 - Penalty < 0 THEN 0 ELSE IF 100 - Penalty > 100 THEN 100 ELSE 100 - Penalty)

\* cpu average above 90, one critical anomaly and nothing else: 60
C9_Witness ==
  /\ scored.called
  /\ DOMAIN scored.health_metrics = {"cpu"}
  /\ scored.health_metrics["cpu"].sum > 90 * scored.health_metrics["cpu"].n
  /\ Len(scored.anomalies) = 1
  /\ scored.anomalies[1].severity = "critical"
  /\ scored.health_score = 60

\* C10: with the summaries fixed, one more critical anomaly in the list
\* never raises the score, and the score stays within [0, 100].
C10_CriticalAnomaliesNeverRaiseScore ==
  [][ (/\ scored.called /\ scored'.called
       /\ scored'.health_metrics = scored.health_metrics
       /\ Len(scored'.anomalies) = Len(scored.anomalies) + 1
       /\ SubSeq(scored'.anomalies, 1, Len(scored.anomalies)) = scored.anomalies
       /\ scored'.anomalies[Len(scored'.anomalies)].severity = "critical")
      => /\ scored'.health_score <= scored.health_score
         /\ scored'.health_score >= 0
         /\ scored'.health_score <= 100
    ]_vars

\* two critical anomalies were added and the score is held at 0
C10_Witness ==
  /\ scored.called
  /\ Len(scored.anomalies) >= 2
  /\ \A i \in 1..Len(scored.anomalies) : scored.anomalies[i].severity = "critical"
  /\ scored.health_score = 0

\* how severe a risk level is
RiskRank(risk_level) ==
  CASE risk_level = "critical" -> 4 [] risk_level = "high" -> 3
    [] risk_level = "medium" -> 2 [] risk_level = "low" -> 1
    [] risk_level = "unknown" -> 0

HasCritical(anomalies) == CountSeverity(anomalies, "critical") > 0

\* the assessments the scorer returns for any score, without and with a
\* critical anomaly
ScorerAssessments ==
  { [health_score |-> sc, anomalies |-> a,
     risk_level |-> _determine_risk_level(sc, a)] :
      sc \in 0..100, a \in { << >>, << CpuAnomaly("critical", 1) >> } }

\* the returned assessment agrees with every assessment of others: same
\* score and same critical-anomaly presence give the same risk level, and a
\* lower score with the same presence gives no less severe a risk level
AgreesWith(others) ==
  \A other \in others :
    HasCritical(other.anomalies) = HasCritical(Result.anomalies) =>
      /\ other.health_score = Result.health_score
           => other.risk_level = Result.risk_level
      /\ other.health_score <= Result.health_score
           => RiskRank(other.risk_level) >= RiskRank(Result.risk_level)
      /\ other.health_score >= Result.health_score
           => RiskRank(other.risk_level) <= RiskRank(Result.risk_level)

\* C11 (as stated): over all assessments the service returns, the no-data
\* assessment among them, the risk level is a monotonic function of the score
\* and of the presence of a critical anomaly.
C11_RiskFunctionOfScore ==
  Assessed => AgreesWith(ScorerAssessments \cup { _create_no_data_response })

\* C11 (amended): over the assessments computed from monitoring data the
\* risk level is a monotonic function of the score and of the presence of a
\* critical anomaly; the assessments without data (score 50, unknown) are
\* outside it.
C11_RiskFunctionOfScoreWithData ==
  Analysed => AgreesWith(ScorerAssessments)

\* an assessment computed from data has score 50, like the no-data
\* assessment, and risk level medium
C11_Witness ==
  /\ Analysed
  /\ cycle.env.fault = "none"
  /\ Result.health_score = _create_no_data_response.health_score
  /\ ~HasCritical(Result.anomalies)
  /\ Result.risk_level = "medium"

\* the cycle got data from the backend for an asset it analyses
GotData ==
  /\ Returned
  /\ ReachesBackend(cycle.equipment_id)
  /\ ~IsEmptyDict(_get_monitoring_data(cycle.env.connected, cycle.env.replies))

FullAssessment ==
  /\ Analysed
  /\ "error" \notin DOMAIN Result
  /\ Result.health_score \in 0..100
  /\ Result.risk_level \in {"low", "medium", "high", "critical"}

\* C12: with 0, 1 or 2 completed interventions the predictor returns no
\* date and the cycle still returns a full assessment.
C12_FewEventsNoDate ==
  (GotData /\ Len(cycle.env.past) < 3)
    => (FullAssessment /\ Result.predicted_failure_date = NoDate)

\* a cycle with two completed interventions returned a full assessment
C12_Witness ==
  /\ GotData
  /\ Len(cycle.env.past) = 2
  /\ FullAssessment
  /\ Result.predicted_failure_date = NoDate

\* the date the specification predicts: the most recent event plus the mean
\* interval (whole days) times 0.8 per concerning average of cpu and memory
ExpectedDate ==
  LET past == cycle.env.past
      over(fam, warning) ==
        /\ fam \in DOMAIN Result.health_metrics
        /\ Result.health_metrics[fam].sum > warning * Result.health_metrics[fam].n
      k == (IF over("cpu", 80) THEN 1 ELSE 0) + (IF over("memory", 85) THEN 1 ELSE 0)
      num == CASE k = 0 -> 1 [] k = 1 -> 4 [] k = 2 -> 16
      den == CASE k = 0 -> 1 [] k = 1 -> 5 [] k = 2 -> 25
  IN past[1] + ((past[1] - past[Len(past)]) * num) \div ((Len(past) - 1) * den)

\* C13: with at least 3 completed interventions the predictor returns the
\* expected date when it is at most 365 days after now, and no date when it
\* is later.
C13_PredictedDate ==
  (GotData /\ Analysed /\ Len(cycle.env.past) >= 3)
    => Result.predicted_failure_date =
         (IF ExpectedDate <= cycle.day + 365 THEN OnDay(ExpectedDate) ELSE NoDate)

\* three interventions a month apart, the expected date 20 days ahead, and
\* no date returned
C13_Witness ==
  /\ GotData /\ Analysed
  /\ cycle.env.past = << -10, -40, -70 >>
  /\ ExpectedDate = 20
  /\ Result.predicted_failure_date = NoDate

RECURSIVE SumTo(_, _)
SumTo(f, k) == IF k = 0 THEN 0 ELSE f[k] + SumTo(f, k - 1)

\* slope is the least-squares slope of the values against 0..n-1: the
\* covariance of index and value over the variance of the index (both
\* scaled by n * n)
IsLeastSquaresSlope(stream, slope) ==
  LET n == Len(stream)
      x == [i \in 1..n |-> i - 1]
      y == [i \in 1..n |-> stream[i].value]
      dx == [i \in 1..n |-> n * x[i] - SumTo(x, n)]
      dy == [i \in 1..n |-> n * y[i] - SumTo(y, n)]
  IN /\ slope.den # 0
     /\ slope.num * SumTo([i \in 1..n |-> dx[i] * dx[i]], n)
          = slope.den * SumTo([i \in 1..n |-> dx[i] * dy[i]], n)

\* C14: for a sequence of length 0 or 1 the trend is slope 0; for a longer
\* one it is the least-squares slope against the sample index 0..n-1, not
\* against the timestamps.
C14_TrendSlope ==
  scored.called =>
    IF Len(scored.values) < 2
    THEN scored.slope.num = 0 /\ scored.slope.den # 0
    ELSE IsLeastSquaresSlope(scored.values, scored.slope)

\* three values at clocks 1, 4, 9 with a rising regression line
C14_Witness ==
  /\ scored.called
  /\ Len(scored.values) = 3
  /\ scored.values[1].value = 0 /\ scored.values[3].value = 10
  /\ scored.slope.num > 0
  /\ IsLeastSquaresSlope(scored.values, scored.slope)

\* the samples the backend returned for a metric in the cycle
Fetched(m) == _get_monitoring_data(cycle.env.connected, cycle.env.replies)[m]

\* C15: a stream of fewer than 10 samples contributes no anomaly, and a
\* cycle in which every stream has at most 9 samples returns an empty
\* anomaly list and still completes with a score and a risk level.
C15_ShortStreamsNoAnomaly ==
  GotData =>
    /\ Analysed
    /\ \A i \in 1..Len(Result.anomalies) :
         Len(Fetched(Result.anomalies[i].metric)) >= 10
    /\ (\A m \in MetricSet : Len(Fetched(m)) <= 9)
         => (FullAssessment /\ Result.anomalies = << >>)

\* a cycle whose streams have nine samples or fewer, one of them with a
\* point the classifier would flag, returned an assessment without anomaly
C15_Witness ==
  /\ GotData
  /\ \A m \in MetricSet : Len(Fetched(m)) <= 9
  /\ Len(Fetched("system.cpu.util")) = 9
  /\ cycle.env.labels["system.cpu.util"] # {}
  /\ FullAssessment
  /\ Result.anomalies = << >>

\* the severity the cutoffs of a stream's family give to a flagged value
FamilySeverity(metric, value) ==
  LET by(critical, high) ==
        IF value > critical THEN "critical" ELSE IF value > high THEN "high" ELSE "medium"
  IN CASE metric = "system.cpu.util" -> by(95, 85)
       [] metric = "vm.memory.util" -> by(98, 90)
       [] metric = "vfs.fs.size[/,pused]" -> by(98, 90)
       [] metric = "sensor.temp.value" -> by(85, 75)
       [] OTHER -> "medium"

\* C16: every flagged point has the severity the cutoffs of its own family
\* (cpu, memory, disk usage, temperature) give to its value, and medium on
\* any other stream.
C16_SeverityByFamily ==
  Analysed =>
    \A i \in 1..Len(Result.anomalies) :
      Result.anomalies[i].severity
        = FamilySeverity(Result.anomalies[i].metric, Result.anomalies[i].value)

\* a flagged disk usage of 99 percent reported as medium
C16_Witness ==
  /\ Analysed
  /\ cycle.env.fault = "none"
  /\ \E i \in 1..Len(Result.anomalies) :
       /\ Result.anomalies[i].metric = "vfs.fs.size[/,pused]"
       /\ Result.anomalies[i].value = 99
       /\ Result.anomalies[i].severity = "medium"

\* what the same cycle returns and does when publishing succeeds
Unfaulted ==
  analyze_equipment_health(cycle.equipment_id, [cycle.env EXCEPT !.fault = "none"],
                           cycle.day)

\* C17: when publishing the alert fails (the notification row or the
\* real-time send), the caller gets the assessment it would have got had the
\* publish succeeded, no error, and nothing is published a second time.
C17_PublishFailureContained ==
  (Returned /\ cycle.env.fault \in {"create", "send"}) =>
    /\ "error" \notin DOMAIN Result
    /\ Result = Unfaulted.result
    /\ cycle.out.sent = << >>
    /\ cycle.out.created =
         (IF cycle.env.fault = "send" THEN Unfaulted.created ELSE << >>)
    /\ Len(Unfaulted.created) = 1

\* a critical assessment returned although the real-time send failed
C17_Witness ==
  /\ Returned
  /\ cycle.env.fault = "send"
  /\ Result.risk_level = "critical"
  /\ Result = Unfaulted.result
  /\ Len(cycle.out.created) = 1
  /\ cycle.out.sent = << >>

\* the reply of the backend for a metric in the cycle
Reply(m) == cycle.env.replies[m]
Answered(m) == Reply(m).kind = "ok" /\ Reply(m).samples # << >>

\* the family summarised from one numeric stream
FamilyOf(m) ==
  CASE m = "system.cpu.util" -> "cpu"
    [] m = "vm.memory.util" -> "memory"
    [] m = "vfs.fs.size[/,pused]" -> "disk"
    [] m = "system.uptime" -> "uptime"
    [] m = "sensor.temp.value" -> "temperature"

SingleStreamMetrics ==
  { "system.cpu.util", "vm.memory.util", "vfs.fs.size[/,pused]", "system.uptime",
    "sensor.temp.value" }

\* a cycle that reached the backend and in which a fetch failed
FetchFailed ==
  /\ Returned
  /\ ReachesBackend(cycle.equipment_id)
  /\ cycle.env.connected
  /\ \E m \in MetricSet : Reply(m).kind = "error"

\* C18: when the fetch of one metric stream fails, the stream counts as no
\* data, every metric is still asked for, and the assessment is made from
\* the streams that were answered.
C18_FailedFetchSkipped ==
  FetchFailed =>
    /\ cycle.out.backend_requests >= Cardinality(MetricSet)
    /\ "error" \notin DOMAIN Result
    /\ (\E m \in MetricSet : Answered(m)) =>
         /\ FullAssessment
         /\ \A m \in SingleStreamMetrics :
              /\ Answered(m) => FamilyOf(m) \in DOMAIN Result.health_metrics
              /\ Reply(m).kind = "error" => FamilyOf(m) \notin DOMAIN Result.health_metrics

\* the cpu fetch failed and the assessment rests on the memory stream
C18_Witness ==
  /\ FetchFailed
  /\ Reply("system.cpu.util").kind = "error"
  /\ Answered("vm.memory.util")
  /\ FullAssessment
  /\ DOMAIN Result.health_metrics = { "memory" }

\* the fetch of a metric failed: no connection, or the API call raised
FetchFailure(m) == ~cycle.env.connected \/ Reply(m).kind = "error"

\* C19: a query that finds no samples returns the empty sequence, and a
\* failed fetch (backend failure or missing connection) returns something
\* the caller can tell apart from the empty sequence.
C19_FailureDistinctFromNoData ==
  (Returned /\ ReachesBackend(cycle.equipment_id)) =>
    \A m \in MetricSet :
      /\ (~FetchFailure(m) /\ Reply(m) = Ok(<< >>)) => Fetched(m) = << >>
      /\ FetchFailure(m) => Fetched(m) # << >>

\* the cpu fetch raised, the disk query found no samples, and the caller
\* got the empty sequence for both
C19_Witness ==
  /\ Returned
  /\ ReachesBackend(cycle.equipment_id)
  /\ cycle.env.connected
  /\ Reply("system.cpu.util").kind = "error"
  /\ Reply("vfs.fs.size[/,pused]") = Ok(<< >>)
  /\ Fetched("system.cpu.util") = << >>
  /\ Fetched("vfs.fs.size[/,pused]") = << >>

\* C20: a fetch that fails at the backend is tried again before its stream
\* is treated as no data.
C20_FailedFetchRetried ==
  (Returned /\ ReachesBackend(cycle.equipment_id) /\ cycle.env.connected) =>
    \A m \in MetricSet :
      Reply(m).kind = "error" => FetchAttempts(cycle.env.connected, Reply(m)) >= 2

\* the cpu fetch raised, one request went to the backend for it, and the
\* assessment was made without the cpu stream
C20_Witness ==
  /\ Analysed
  /\ cycle.env.connected
  /\ Reply("system.cpu.util").kind = "error"
  /\ FetchAttempts(cycle.env.connected, Reply("system.cpu.util")) = 1
  /\ HistoryRequests(cycle.env.connected, Reply("system.cpu.util")) = 1
  /\ "cpu" \notin DOMAIN Result.health_metrics

\* C21: a batch run ends only when every monitored asset has been analysed:
\* a failure while one asset is processed (its analysis, or the recording of
\* its alert notification) does not end the run with assets still queued.
C21_BatchAnalysesEveryAsset ==
  [][(task.phase = "running" /\ task'.phase = "idle") => task.queue = << >>]_vars

\* the task is about to record the alert of a high-risk asset while another
\* monitored asset is still waiting
C21_Witness ==
  /\ task.phase = "running"
  /\ Len(task.queue) >= 2
  /\ cycle.phase = "done"
  /\ cycle.caller = "task"
  /\ cycle.equipment_id = Head(task.queue)
  /\ IsHighRisk(GetRiskLevel(cycle.out.result))

\* a stage of the cycle failed: a value float() cannot parse stopped the
\* summaries, the anomaly scan or the trends, the scorer went through its
\* except branch, or the predictor's comparison raised
StageFailed ==
  \/ \E m \in MetricSet : Fetched(m) # << >> /\ FloatFails(Fetched(m))
  \/ cycle.env.fault = "scoring"
  \/ Len(cycle.env.past) >= 3

\* C24: a failure inside a stage of the cycle still leaves an assessment with
\* a health score and a risk level, and the call returns a result rather
\* than an exception.
C24_StageFailureDegrades ==
  (GotData /\ StageFailed) => FullAssessment

\* the memory stream held text: the summaries stopped after cpu, and the
\* assessment was still returned
C24_Witness ==
  /\ GotData
  /\ FloatFails(Fetched("vm.memory.util"))
  /\ FullAssessment
  /\ DOMAIN Result.health_metrics = { "cpu" }

\* position of a stage among the stages the cycle went through, 0 if absent
StagePos(stage) ==
  LET at == { i \in 1..Len(cycle.out.stages) : cycle.out.stages[i] = stage }
  IN IF at = {} THEN 0 ELSE CHOOSE i \in at : TRUE

Precedes(a, b) == StagePos(a) # 0 /\ StagePos(b) # 0 /\ StagePos(a) < StagePos(b)

\* C25: the stages of a cycle run in the order fetch, summarize, detect,
\* score, predict, alert: the score is computed before the prediction starts
\* and the alert comes after every other stage.
C25_StageOrder ==
  Analysed =>
    /\ Precedes("fetch", "summarize")
    /\ Precedes("summarize", "detect")
    /\ Precedes("detect", "score")
    /\ Precedes("score", "predict")
    /\ StagePos("alert") # 0 => StagePos("alert") = Len(cycle.out.stages)

\* a cycle with an alert in which the prediction ran before the score
C25_Witness ==
  /\ Analysed
  /\ cycle.env.fault = "none"
  /\ Precedes("predict", "score")
  /\ StagePos("alert") = Len(cycle.out.stages)

\* a stream anomaly detection and summarisation can process
Numeric(m) == Fetched(m) # << >> /\ ~FloatFails(Fetched(m))

Reported(m) ==
  \E i \in 1..Len(Result.anomalies) : Result.anomalies[i].metric = m

\* C30: a stream that cannot be processed costs only itself: the flagged
\* points of every numeric stream of at least 10 samples are reported, and
\* every numeric stream of a metric family is summarised.
C30_StreamsIsolated ==
  (Analysed /\ Len(Result.anomalies) < TopAnomalies) =>
    \A m \in MetricSet :
      Numeric(m) =>
        /\ (Len(Fetched(m)) >= MinDetectSamples /\ cycle.env.labels[m] # {})
             => Reported(m)
        /\ m \in SingleStreamMetrics => FamilyOf(m) \in DOMAIN Result.health_metrics

\* the memory stream held text: the cpu results before it are kept, while
\* the flagged temperature point is not reported and the disk stream is not
\* summarised
C30_Witness ==
  /\ Analysed
  /\ FloatFails(Fetched("vm.memory.util"))
  /\ Len(Fetched("vm.memory.util")) >= MinDetectSamples
  /\ Reported("system.cpu.util")
  /\ "cpu" \in DOMAIN Result.health_metrics
  /\ Numeric("sensor.temp.value") /\ cycle.env.labels["sensor.temp.value"] # {}
  /\ ~Reported("sensor.temp.value")
  /\ Numeric("vfs.fs.size[/,pused]")
  /\ "disk" \notin DOMAIN Result.health_metrics

\* the cycle was asked about an id no asset has
NotFound == Returned /\ cycle.equipment_id \notin DOMAIN EquipmentDB

\* C22: the analysis of an id that does not exist returns the 'not found'
\* error without a backend request and without an alert, and a batch run
\* that meets one goes on with the assets after it.
C22_NotFoundContained ==
  [][/\ NotFound' =>
          /\ cycle'.out.result = [error |-> "Equipment not found"]
          /\ cycle'.out.backend_requests = 0
          /\ cycle'.out.created = << >> /\ cycle'.out.sent = << >>
          /\ notifications' = notifications /\ published' = published
     /\ (NotFound /\ cycle.caller = "task" /\ task' # task) =>
          task' = [task EXCEPT !.queue = Tail(@)]]_vars

\* a batch run got the 'not found' result for a deleted asset while
\* monitored assets are still waiting
C22_Witness ==
  /\ NotFound
  /\ cycle.caller = "task"
  /\ cycle.out.result = [error |-> "Equipment not found"]
  /\ task.phase = "running"
  /\ Head(task.queue) = cycle.equipment_id
  /\ Len(task.queue) >= 2

\* C23: the history endpoint is never cached: a get_history_data call leaves
\* the response cache as it was and, whenever the service holds a
\* connection, sends its requests to the backend; a listing call is answered
\* from the cache only when the entry's timeout had not passed.
HistoryStep == log'.begun # log.begun /\ call'.kind = "history"

ListingStep == log'.begun # log.begun /\ call'.kind \in Listings

C27_RepeatedCallServedFromCache ==
  [][ ListingStep =>
        /\ call'.fresh =>
              (call'.outcome = "returned" /\ call'.requests = 0
                 /\ call'.value = call'.held[1])
        /\ call'.failed => cache' = cache ]_vars

\* a repeated call within the timeout, the entry being the empty list the
\* first call had stored
C27_Witness ==
  /\ call.kind \in Listings
  /\ call.fresh
  /\ call.held = << << >> >>
\* C26: cache population is put-if-absent: when a worker reaches cache.set
\* and the key holds an unexpired entry written since that worker's own
\* lookup missed (the other worker's), the entry keeps the value it holds.
StoreStep(w) == workers[w].pc = "store" /\ workers'[w].pc = "idle"

WrittenSince(w) ==
  LET key == ListingKey(workers[w].kind)
  IN Live(cache[key], Now) /\ cache[key] # workers[w].seen

C26_PopulationPutIfAbsent ==
  [][ \A w \in Workers :
        (StoreStep(w) /\ WrittenSince(w)) =>
          cache'[ListingKey(workers[w].kind)].value
            = cache[ListingKey(workers[w].kind)].value ]_vars

\* both workers missed the same key, one has written its response and the
\* other holds a different (older) response it is about to cache
C26_Witness ==
  \E w \in Workers :
    /\ workers[w].pc = "store"
    /\ WrittenSince(w)
    /\ cache[ListingKey(workers[w].kind)].value # workers[w].response
    /\ Len(workers[w].response) < Len(cache[ListingKey(workers[w].kind)].value)

\* C28: once acknowledge_problem has returned True, a get_problems or
\* get_dashboard_summary call that begins afterwards returns no problem data
\* fetched before that acknowledgement; an acknowledge_problem that returns
\* False leaves every cache entry as it was.
ProblemDataStep ==
  /\ log'.begun # log.begun
  /\ call'.kind \in { "problems", "summary" }
  /\ call'.outcome = "returned"

AcknowledgeRefused ==
  /\ call' # call
  /\ call'.kind = "acknowledge"
  /\ call'.outcome = "returned"
  /\ ~call'.value

C28_AcknowledgeInvalidates ==
  [][ /\ ProblemDataStep => ~call'.stale
      /\ AcknowledgeRefused => cache' = cache ]_vars

\* the dashboard summary asked for after an acknowledgement that returned
\* True, and answered from the entry computed before it
C28_Witness ==
  /\ log.confirmed >= 1
  /\ call.kind = "summary"
  /\ call.hit
  /\ call.stale
  /\ call.value.total_problems >= 1

\* C29: the monitoring_data_<id> entry of an asset, when there is one, holds
\* the result of a successful fetch, whichever writer put it there.
C29_MonitoringEntrySuccessful ==
  \A id \in { i \in EquipmentIds : HasHost(i) } :
    cache[MonitoringKey(id)].present => cache[MonitoringKey(id)].value.success

\* the update task has run for asset 1 with a fetch that failed
C29_Witness ==
  /\ call.kind = "update_task"
  /\ ~call.value.success
  /\ cache[MonitoringKey(1)].present

====
